---- MODULE Spec2Model ----
(***************************************************************************)
(* A model of the key/value server of src/src/main.rs and                  *)
(* src/src/protocol_parser.rs: one thread per connection running           *)
(* handle_connection, the command decoder RESPValue::into_command, the     *)
(* reply producer Command::as_response, Command::execute, and the keyspace *)
(* operations db_set / db_get on the process-wide Mutex<HashMap>.          *)
(*                                                                         *)
(* Time is counted in milliseconds.  Option<T> is a sequence of length 0   *)
(* (None) or 1 (Some).  The HashMap is a function whose DOMAIN is the set  *)
(* of keys physically present.  Each critical section of db_get and db_set *)
(* is two steps, the first taking the guard, so that what the mutex        *)
(* excludes is decided by the guard and not by the size of a step.         *)
(*                                                                         *)
(* Spec is the server with two connections, from the values parse_input    *)
(* returns onwards; StartupSpec is the same server started with any of     *)
(* the command lines and snapshot files; WireSpec is one connection byte   *)
(* by byte, from the client's writes through the reads and parse_input to  *)
(* the for loop; CodecSpec applies parse_input to the Display output of    *)
(* RESP values; RdbSpec runs load_db of src/src/rdb.rs, byte by byte, on   *)
(* snapshot files.                                                         *)
(***************************************************************************)
EXTENDS Integers, Sequences, FiniteSets, TLC

\* ------------------------------------------------------------------ bounds
\* Largest value of the wall clock.
MaxTime == 2
\* Largest number of RESP values in one text given to the parser.
MaxVals == 2
\* Number of frames the client of the byte-level connection writes.
MaxFrames == 2
\* Number of commands the clients send, over all connections.
MaxCmds == 3
\* Largest number of commands that one parse attempt (one batch) returns.
MaxBatch == 2

\* Duration::from_secs: milliseconds in one second.
MsPerSec == 1000
\* BUFFER_SIZE
BUFFER_SIZE == 10

Conns == {"c1", "c2"}
Keys == {"foo", "baz"}
Payloads == {"a", "b"}

\* ------------------------------------------------------------- data types
NoneOpt == <<>>
Some(x) == <<x>>

\* RESPValue::SimpleString(s)
SimpleString(s) == [type |-> "SimpleString", s |-> s]
\* RESPValue::BulkString(s)
BulkString(s) == [type |-> "BulkString", s |-> s]
\* RESPValue::Array(values)
Array(items) == [type |-> "Array", items |-> items]

\* RESPValue::Error(s)
Error(s) == [type |-> "Error", s |-> s]
\* RESPValue::Integer(i)
Integer(i) == [type |-> "Integer", i |-> i]

\* No RESPValue: the filler of the record fields a Command variant lacks.
NoValue == [type |-> "none", s |-> ""]

\* SetOpts, as `let mut opts = SetOpts {..}` builds it.
DefaultOpts ==
    [expires_at |-> NoneOpt, condition |-> "Always", keep_ttl |-> FALSE, get |-> FALSE]

\* Command variants, as one record shape.
CmdPing == [name |-> "Ping", key |-> "", value |-> NoValue, opts |-> DefaultOpts]
CmdEcho(v) == [name |-> "Echo", key |-> "", value |-> v, opts |-> DefaultOpts]
CmdGet(k) == [name |-> "Get", key |-> k, value |-> NoValue, opts |-> DefaultOpts]
CmdSet(k, v, o) == [name |-> "Set", key |-> k, value |-> v, opts |-> o]
CmdCommand == [name |-> "Command", key |-> "", value |-> NoValue, opts |-> DefaultOpts]
CmdConfigGet(k) == [name |-> "ConfigGet", key |-> k, value |-> NoValue, opts |-> DefaultOpts]
\* The outcome of a decoder call that panics (unwrap on None, unimplemented!()).
Panic == [name |-> "panic", key |-> "", value |-> NoValue, opts |-> DefaultOpts]
\* No command: the connection's `command` local outside the loop body.
NoCmd == [name |-> "none", key |-> "", value |-> NoValue, opts |-> DefaultOpts]

\* Response variants.
RespOk == [kind |-> "Ok", value |-> NoValue]
RespPong == [kind |-> "Pong", value |-> NoValue]
RespNull == [kind |-> "Null", value |-> NoValue]
RespEcho(v) == [kind |-> "Echo", value |-> v]
NoResp == [kind |-> "none", value |-> NoValue]

\* DBEntry
DBEntry(v, e) == [value |-> v, expires_at |-> e]

\* ------------------------------------------------------ the command decoder
\* str::parse::<u64>() on the decimal texts the clients of this model send.
ParseU64(s) ==
    CASE s = "1" -> Some(1)
      [] s = "2" -> Some(2)
      [] OTHER -> NoneOpt

\* The `while let Some(val) = iter.next()` loop over the SET option tokens:
\* items[i..] are the tokens left, opts the record built so far.  The result
\* is Some(opts), or None when the loop panics.
RECURSIVE ParseSetOpts(_, _, _, _)
ParseSetOpts(items, i, opts, now) ==
    IF i > Len(items) THEN Some(opts)
    ELSE IF items[i].type # "BulkString" THEN NoneOpt
    ELSE LET tok == items[i].s IN
      CASE tok = "EX" ->
             IF i + 1 > Len(items) \/ items[i + 1].type # "BulkString" THEN NoneOpt
             ELSE LET n == ParseU64(items[i + 1].s) IN
                  IF n = NoneOpt THEN NoneOpt
                  ELSE ParseSetOpts(items, i + 2,
                         [opts EXCEPT !.expires_at = Some(now + n[1] * MsPerSec)], now)
        [] tok = "PX" ->
             IF i + 1 > Len(items) \/ items[i + 1].type # "BulkString" THEN NoneOpt
             ELSE LET n == ParseU64(items[i + 1].s) IN
                  IF n = NoneOpt THEN NoneOpt
                  ELSE ParseSetOpts(items, i + 2,
                         [opts EXCEPT !.expires_at = Some(now + n[1])], now)
        [] tok = "NX" ->
             ParseSetOpts(items, i + 1, [opts EXCEPT !.condition = "IfNotExists"], now)
        [] tok = "XX" ->
             ParseSetOpts(items, i + 1, [opts EXCEPT !.condition = "IfExists"], now)
        [] tok = "KEEPTTL" ->
             ParseSetOpts(items, i + 1, [opts EXCEPT !.keep_ttl = TRUE], now)
        [] tok = "GET" ->
             ParseSetOpts(items, i + 1, [opts EXCEPT !.get = TRUE], now)
        [] OTHER -> NoneOpt

\* RESPValue::into_command; `now` is what SystemTime::now() returns inside the
\* EX / PX branches.  Command names reach the model in upper case.
into_command(input, now) ==
    IF input.type = "SimpleString" THEN
      CASE input.s = "PING" -> CmdPing
        [] input.s = "COMMAND" -> CmdCommand
        [] OTHER -> Panic
    ELSE IF input.type # "Array" THEN Panic
    ELSE LET items == input.items IN
      IF Len(items) = 0 \/ items[1].type # "BulkString" THEN Panic
      ELSE
        CASE items[1].s = "ECHO" ->
               IF Len(items) < 2 THEN Panic ELSE CmdEcho(items[2])
          [] items[1].s = "PING" -> CmdPing
          [] items[1].s = "COMMAND" -> CmdCommand
          [] items[1].s = "SET" ->
               IF Len(items) < 3 \/ items[2].type # "BulkString" THEN Panic
               ELSE LET o == ParseSetOpts(items, 4, DefaultOpts, now) IN
                    IF o = NoneOpt THEN Panic
                    ELSE CmdSet(items[2].s, items[3], o[1])
          [] items[1].s = "GET" ->
               IF Len(items) < 2 \/ items[2].type # "BulkString" THEN Panic
               ELSE CmdGet(items[2].s)
          [] items[1].s = "CONFIG" ->
               IF Len(items) < 2 \/ items[2].type # "BulkString" THEN Panic
               ELSE IF items[2].s # "GET" THEN Panic
               ELSE IF Len(items) < 3 \/ items[3].type # "BulkString" THEN Panic
               ELSE CmdConfigGet(items[3].s)
          [] OTHER -> Panic

\* ------------------------------------------------------------ the keyspace
\* is_expired with the comparison including the deadline itself.
is_expired_at_deadline(entry, now) ==
    IF entry.expires_at # NoneOpt THEN now >= entry.expires_at[1] ELSE FALSE

\* is_expired that never reports an expiry.
is_expired_never(entry, now) == FALSE

\* DBEntry::is_expired, `now` being what SystemTime::now() returns in it.
is_expired(entry, now) ==
    IF entry.expires_at # NoneOpt THEN now > entry.expires_at[1] ELSE FALSE

\* HashMap::get(&key).cloned()
MapGet(m, k) == IF k \in DOMAIN m THEN Some(m[k]) ELSE NoneOpt
\* An insert that overwrites the value of an existing entry and leaves its
\* expires_at.
MapInsertTorn(m, k, e) ==
    [x \in DOMAIN m \cup {k} |->
       IF x # k THEN m[x]
       ELSE IF k \in DOMAIN m THEN DBEntry(e.value, m[k].expires_at) ELSE e]

\* An insert that leaves an existing entry in place.
MapInsertIfAbsent(m, k, e) == [x \in DOMAIN m \cup {k} |-> IF x \in DOMAIN m THEN m[x] ELSE e]

\* HashMap::insert(key, entry)
MapInsert(m, k, e) == [x \in DOMAIN m \cup {k} |-> IF x = k THEN e ELSE m[x]]
\* A remove that empties the map.
MapRemoveAll(m, k) == [x \in {} |-> m[x]]

\* HashMap::remove(&key)
MapRemove(m, k) == [x \in DOMAIN m \ {k} |-> m[x]]

\* db_set's decision without its IfNotExists test.
DbSetSkipsXxOnly(exists, condition) == ~exists /\ condition = "IfExists"

\* db_set's decision without its IfExists test.
DbSetSkipsNxOnly(exists, condition) == exists /\ condition = "IfNotExists"

\* The two-way decision at the head of db_set: TRUE when it returns without
\* modification.
DbSetSkips(exists, condition) ==
    \/ exists /\ condition = "IfNotExists"
    \/ ~exists /\ condition = "IfExists"

\* db_set's `new_entry`.
NewEntry(value, opts) == DBEntry(value, opts.expires_at)

\* What db_get returns for the cloned lookup result `e`: None for a missing or
\* an expired entry, the value otherwise.
DbGetResult(e, now) ==
    IF e # NoneOpt
    THEN IF is_expired(e[1], now) THEN NoneOpt ELSE Some(e[1].value)
    ELSE NoneOpt

\* db_get's `guard.remove(&key)`: the map after the call.
DbGetMap(m, k, e, now) ==
    IF e # NoneOpt /\ is_expired(e[1], now) THEN MapRemove(m, k) ELSE m

\* The match on db_get's result in Command::as_response (Set with GET, and Get).
GetResponse(res) == IF res # NoneOpt THEN RespEcho(res[1]) ELSE RespNull

\* Args::default()
DefaultArgs == [port |-> "6379", directory |-> ".", dbfilename |-> "dump.rdb"]

\* main's fold over the (flag, value) pairs of the command line, from `args`
\* onwards.  A flag other than the three panics before the server starts, so
\* no command line of the model has one.
RECURSIVE ParseArgs(_, _)
ParseArgs(pairs, args) ==
    IF pairs = <<>> THEN args
    ELSE LET key == Head(pairs)[1]
             value == Head(pairs)[2]
         IN ParseArgs(Tail(pairs),
              CASE key = "--port" -> [args EXCEPT !.port = value]
                [] key = "--dir" -> [args EXCEPT !.directory = value]
                [] key = "--dbfilename" -> [args EXCEPT !.dbfilename = value])

\* The command lines the server of this model is started with.
CommandLines ==
    { <<>>,
      << <<"--dir", "/tmp/redis-files">>, <<"--dbfilename", "x.rdb">> >> }

\* config_get answering from the defaults instead of from CONFIG.
config_get_defaults(key, cfg) ==
    CASE key = "dir" -> Some(DefaultArgs.directory)
      [] key = "dbfilename" -> Some(DefaultArgs.dbfilename)
      [] OTHER -> NoneOpt

\* config_get; cfg is what CONFIG.get() returns.
config_get(key, cfg) ==
    CASE key = "dir" -> Some(cfg.directory)
      [] key = "dbfilename" -> Some(cfg.dbfilename)
      [] OTHER -> NoneOpt

\* Command::as_response for the variants that do not touch the keyspace; cfg
\* is what CONFIG.get() returns.
LocalResponse(command, cfg) ==
    CASE command.name = "Ping" -> RespPong
      [] command.name = "Echo" -> RespEcho(command.value)
      [] command.name = "Command" -> RespOk
      [] command.name = "Set" -> RespOk
      [] command.name = "ConfigGet" ->
           LET res == config_get(command.key, cfg) IN
           IF res # NoneOpt
           THEN RespEcho(Array(<<BulkString(command.key), BulkString(res[1])>>))
           ELSE RespNull

\* Whether Command::as_response calls db_get.
CallsDbGet(command) ==
    \/ command.name = "Get"
    \/ command.name = "Set" /\ command.opts.get

\* ------------------------------------------------------------ the clients
B(s) == BulkString(s)

\* The option tails a client of this model puts after SET key value.
SetOptions ==
    { <<>>, <<B("PX"), B("1")>>, <<B("NX")>>, <<B("XX")>>, <<B("KEEPTTL")>>, <<B("GET")>> }

\* The key the clients contend for, with either payload and, for payload
\* "b", with each option; the other keys are only set plainly.
MainKey == "foo"

\* Commands of malformed shape: wrong arity, an argument of the wrong RESP
\* variant, an unrecognized command name, an unrecognized option name.
MalformedRequests ==
    { Array(<<B("GET")>>),
      Array(<<B("SET"), Array(<<>>), B("a")>>),
      Array(<<B("FLUSHALL")>>),
      Array(<<B("SET"), B(MainKey), B("b"), B("BOGUS")>>) }

\* SET with an absolute expiry: EXAT seconds, PXAT milliseconds.
ExatRequest(n) == Array(<<B("SET"), B(MainKey), B("b"), B("EXAT"), B(n)>>)
PxatRequest(n) == Array(<<B("SET"), B(MainKey), B("b"), B("PXAT"), B(n)>>)
AbsoluteExpiryRequests == { ExatRequest("1"), PxatRequest("1"), PxatRequest("2") }

\* The RESP values parse_input hands to the loop.
Requests ==
    { Array(<<B("PING")>>), Array(<<B("COMMAND")>>) }
    \cup MalformedRequests
    \cup AbsoluteExpiryRequests
    \cup { Array(<<B("ECHO"), B("a")>>) }
    \cup { Array(<<B("GET"), B(k)>>) : k \in Keys }
    \cup { Array(<<B("SET"), B(MainKey), B(p)>>) : p \in Payloads }
    \cup { Array(<<B("SET"), B(MainKey), B("b")>> \o o) : o \in SetOptions \ {<<>>} }
    \cup { Array(<<B("SET"), B(k), B("b")>>) : k \in Keys \ {MainKey} }

\* The RESP values the clients send to a server started with any of the
\* command lines and snapshot files.
StartupRequests ==
    { Array(<<B("CONFIG"), B("GET"), B(k)>>) : k \in {"dir", "dbfilename", "port"} }
    \cup { Array(<<B("GET"), B(MainKey)>>), Array(<<B("SET"), B(MainKey), B("a")>>) }

\* ------------------------------------------------------------------- state
VARIABLES
    clock,      \* SystemTime::now()
    db,         \* DB: the HashMap<String, DBEntry> inside the Mutex
    mutex,      \* the owner of DB's Mutex, or "free"
    pc,         \* each connection thread's position in handle_connection
    pending,    \* `inputs`: arrival numbers of the values the for loop has left
    sent,       \* number of commands the client has sent on the connection so far
    cur,        \* arrival number of the command the loop body is at (0: none)
    cmd,        \* `command`
    response,   \* `response`
    entry,      \* db_get's `entry`
    key_exists, \* db_set's `key_exists`
    out,        \* the socket: arrival numbers of the commands replied to, in order
    \* history, read by the properties only
    decoded,    \* the PX duration of `command` and the instant into_command decoded it
    lookup_at,  \* the instant of db_get's lookup for `command`
    lastSet,    \* per key, the last SET applied: its value, whether it had no option,
                \* its PX duration and decoding instant
    lastSkip    \* per key, the last SET skipped since then: its condition, the entry it left

VARIABLES
    config,     \* CONFIG: the Args main stores at startup
    disk        \* the snapshot file at directory/dbfilename: the keyspace it
                \* decodes to, or None when there is no file

\* One connection at the level of bytes.
VARIABLES
    peer,       \* the client's end of the stream: "open", "closed"
    wire,       \* bytes the client has written that have not arrived yet
    sock,       \* bytes that have arrived and `reader` has not returned yet
    agg,        \* `agg`
    inputs,     \* `inputs`: the values of the for loop that are left
    wpc,        \* the thread's position in handle_connection
    \* history, read by the properties only
    eof,        \* a read has returned 0 at the end of the stream
    frames,     \* the frames the client has written, in order
    executed    \* the commands the loop body has decoded and executed, in order

\* load_db reading one snapshot file.
VARIABLES
    file,       \* the bytes of the file at directory/dbfilename
    offset,     \* `file`'s cursor: the number of bytes read so far
    db_data,    \* `db_data`
    lpc,        \* load_db's position
    \* history, read by the properties only
    written     \* the entries the file was written from, in order

server ==
    <<clock, db, mutex, pc, pending, sent, cur, cmd, response, entry,
      key_exists, out, decoded, lookup_at, lastSet, lastSkip>>
loader == <<file, offset, db_data, lpc, written>>
startup == <<config, disk, loader>>
net == <<peer, wire, sock, agg, inputs, wpc, eof, frames, executed>>

vars ==
    <<clock, db, mutex, pc, pending, sent, cur, cmd, response, entry,
      key_exists, out, decoded, lookup_at, lastSet, lastSkip,
      config, disk, peer, wire, sock, agg, inputs, wpc, eof, frames, executed,
      file, offset, db_data, lpc, written>>

EmptyMap == [x \in {} |-> NoValue]

\* The byte-level connection at rest.
NetIdle ==
    /\ peer = "open"
    /\ wire = <<>>
    /\ sock = <<>>
    /\ agg = <<>>
    /\ inputs = <<>>
    /\ wpc = "idle"
    /\ eof = FALSE
    /\ frames = <<>>
    /\ executed = <<>>

\* load_db is not called (main.rs has no call of it): no file is read.
LoaderIdle ==
    /\ file = <<>>
    /\ offset = 0
    /\ db_data = NoValue
    /\ lpc = "idle"
    /\ written = <<>>

\* main, lines 75-76, and the threads before their first read.
ServerInit ==
    /\ clock = 0
    /\ db = EmptyMap
    /\ mutex = "free"
    /\ pc = [c \in Conns |-> "read"]
    /\ pending = [c \in Conns |-> <<>>]
    /\ sent = [c \in Conns |-> 0]
    /\ cur = [c \in Conns |-> 0]
    /\ cmd = [c \in Conns |-> NoCmd]
    /\ response = [c \in Conns |-> NoResp]
    /\ entry = [c \in Conns |-> NoneOpt]
    /\ key_exists = [c \in Conns |-> FALSE]
    /\ out = [c \in Conns |-> <<>>]
    /\ decoded = [c \in Conns |-> NoneOpt]
    /\ lookup_at = [c \in Conns |-> NoneOpt]
    /\ lastSet = [k \in Keys |-> NoneOpt]
    /\ lastSkip = [k \in Keys |-> NoneOpt]

\* The server started without flags and without a snapshot file.
Init ==
    /\ ServerInit
    /\ config = ParseArgs(<<>>, DefaultArgs)
    /\ disk = NoneOpt
    /\ NetIdle
    /\ LoaderIdle

\* ----------------------------------------------------------------- actions
\* The wall clock advances; it is taken never to go backwards.
Tick ==
    /\ clock < MaxTime
    /\ clock' = clock + 1
    /\ UNCHANGED <<db, mutex, pc, pending, sent, cur, cmd, response, entry,
                   key_exists, out, decoded, lookup_at, lastSet, lastSkip>>
    /\ UNCHANGED <<startup, net>>

\* A lock that is granted whoever holds the guard.
MutexNotExclusive(c) == TRUE

\* Mutex::lock returns only while no other thread holds the guard.
MutexFree(c) == mutex = "free"

\* A guard that outlives the call: the mutex stays with the thread.
GuardKept(c) == c

\* The owner of the mutex once `guard` has gone out of scope at the return of
\* db_get or db_set.
GuardDropped(c) == "free"

\* The parsed values visited last to first.
IterNextReversed(p) == [item |-> p[Len(p)], rest |-> SubSeq(p, 1, Len(p) - 1)]

\* The order in which `for input in inputs` visits the parsed values.
IterNext(p) == [item |-> Head(p), rest |-> Tail(p)]

RECURSIVE SumOver(_, _)
SumOver(f, S) ==
    IF S = {} THEN 0
    ELSE LET x == CHOOSE y \in S : TRUE IN f[x] + SumOver(f, S \ {x})

\* Commands sent so far, over all connections.
TotalSent == SumOver(sent, Conns)

\* handle_connection, lines 110-123: the reads up to a short one, and
\* parse_input on the aggregate, which holds n whole commands.
Read(c) ==
    /\ pc[c] = "read"
    /\ \E n \in 1..MaxBatch :
         /\ TotalSent + n <= MaxCmds
         /\ pending' = [pending EXCEPT ![c] = [i \in 1..n |-> sent[c] + i]]
         /\ sent' = [sent EXCEPT ![c] = sent[c] + n]
    /\ pc' = [pc EXCEPT ![c] = "next"]
    /\ UNCHANGED <<clock, db, mutex, cur, cmd, response, entry, key_exists,
                   out, decoded, lookup_at, lastSet, lastSkip>>
    /\ UNCHANGED <<startup, net>>

\* handle_connection, lines 138-146: a read error ends the loop and the stream
\* is shut down.
ReadError(c) ==
    /\ pc[c] = "read"
    /\ pc' = [pc EXCEPT ![c] = "closed"]
    /\ UNCHANGED <<clock, db, mutex, pending, sent, cur, cmd, response, entry,
                   key_exists, out, decoded, lookup_at, lastSet, lastSkip>>
    /\ UNCHANGED <<startup, net>>

\* The SET arguments of an input, for the history: the duration its PX option
\* asks for, if it has one.
PxOf(req) ==
    IF /\ req.type = "Array"
       /\ Len(req.items) = 5
       /\ req.items[4] = B("PX")
    THEN ParseU64(req.items[5].s)
    ELSE NoneOpt

\* `for input in inputs { let command = input.into_command();`: the loop takes
\* its next value and decodes it.  into_command panics on a malformed shape:
\* the thread unwinds and its stream is dropped.
IntoCommandOf(c, requests) ==
    /\ pc[c] = "next"
    /\ pending[c] # <<>>
    /\ \E req \in requests :
         LET command == into_command(req, clock) IN
         IF command = Panic
         THEN /\ pc' = [pc EXCEPT ![c] = "panicked"]
              /\ pending' = [pending EXCEPT ![c] = <<>>]
              /\ UNCHANGED <<cmd, cur, decoded>>
         ELSE /\ pc' = [pc EXCEPT ![c] = "as_response"]
              /\ cmd' = [cmd EXCEPT ![c] = command]
              /\ cur' = [cur EXCEPT ![c] = IterNext(pending[c]).item]
              /\ pending' = [pending EXCEPT ![c] = IterNext(pending[c]).rest]
              /\ decoded' = [decoded EXCEPT ![c] =
                               IF PxOf(req) # NoneOpt
                               THEN Some([px |-> PxOf(req)[1], at |-> clock])
                               ELSE NoneOpt]
    /\ UNCHANGED <<clock, db, mutex, sent, response, entry, key_exists, out,
                   lookup_at, lastSet, lastSkip>>
    /\ UNCHANGED <<startup, net>>

IntoCommand(c) == IntoCommandOf(c, Requests)

\* Command::execute for every variant but Set: a println, no step of its own.
AfterResponseWrites(command) == "write"
\* The position after as_response has returned.
AfterResponse(command) == IF command.name = "Set" THEN "execute" ELSE "write"

\* `let response = command.as_response();` for a command that db_get is not
\* called for (and `command.execute();` when that only prints).
AsResponse(c) ==
    /\ pc[c] = "as_response"
    /\ ~CallsDbGet(cmd[c])
    /\ response' = [response EXCEPT ![c] = LocalResponse(cmd[c], config)]
    /\ pc' = [pc EXCEPT ![c] = AfterResponse(cmd[c])]
    /\ UNCHANGED <<clock, db, mutex, pending, sent, cur, cmd, entry, key_exists,
                   out, decoded, lookup_at, lastSet, lastSkip>>
    /\ UNCHANGED <<startup, net>>

\* db_get, lines 171-172, called from as_response: lock, look up, clone.
DbGetLookup(c) ==
    /\ pc[c] = "as_response"
    /\ CallsDbGet(cmd[c])
    /\ MutexFree(c)
    /\ mutex' = c
    /\ entry' = [entry EXCEPT ![c] = MapGet(db, cmd[c].key)]
    /\ lookup_at' = [lookup_at EXCEPT ![c] = Some(clock)]
    /\ pc' = [pc EXCEPT ![c] = "db_get"]
    /\ UNCHANGED <<clock, db, pending, sent, cur, cmd, response, key_exists,
                   out, decoded, lastSet, lastSkip>>
    /\ UNCHANGED <<startup, net>>

\* db_get, lines 173-182: the expiry test, the lazy removal, the guard dropped
\* on return; as_response's match on the result (and `command.execute();`
\* when that only prints).
DbGetReturn(c) ==
    /\ pc[c] = "db_get"
    /\ db' = DbGetMap(db, cmd[c].key, entry[c], clock)
    /\ response' = [response EXCEPT ![c] = GetResponse(DbGetResult(entry[c], clock))]
    /\ entry' = [entry EXCEPT ![c] = NoneOpt]
    /\ mutex' = GuardDropped(c)
    /\ pc' = [pc EXCEPT ![c] = AfterResponse(cmd[c])]
    /\ UNCHANGED <<clock, pending, sent, cur, cmd, key_exists, out,
                   decoded, lookup_at, lastSet, lastSkip>>
    /\ UNCHANGED <<startup, net>>

ContainsLiveKey(m, k) == k \in DOMAIN m /\ ~is_expired(m[k], clock)
\* guard.contains_key(&key): the key has an entry in the map, expired or not.
contains_key(m, k) == k \in DOMAIN m

\* db_set, lines 150-152, called from execute: lock, observe the key's presence.
DbSetObserve(c) ==
    /\ pc[c] = "execute"
    /\ cmd[c].name = "Set"
    /\ MutexFree(c)
    /\ mutex' = c
    /\ key_exists' = [key_exists EXCEPT ![c] = contains_key(db, cmd[c].key)]
    /\ pc' = [pc EXCEPT ![c] = "db_set"]
    /\ UNCHANGED <<clock, db, pending, sent, cur, cmd, response, entry, out,
                   decoded, lookup_at, lastSet, lastSkip>>
    /\ UNCHANGED <<startup, net>>

\* db_set, lines 154-168: skip or insert, the guard dropped on return.
DbSetApply(c) ==
    /\ pc[c] = "db_set"
    /\ LET k == cmd[c].key IN
         IF DbSetSkips(key_exists[c], cmd[c].opts.condition)
         THEN /\ db' = db
              /\ lastSkip' = [lastSkip EXCEPT ![k] =
                                Some([condition |-> cmd[c].opts.condition,
                                      old |-> MapGet(db, k)])]
              /\ UNCHANGED lastSet
         ELSE /\ db' = MapInsert(db, k, NewEntry(cmd[c].value, cmd[c].opts))
              /\ lastSet' = [lastSet EXCEPT ![k] =
                               Some([value |-> cmd[c].value,
                                     plain |-> cmd[c].opts = DefaultOpts,
                                     px |-> decoded[c]])]
              /\ lastSkip' = [lastSkip EXCEPT ![k] = NoneOpt]
    /\ key_exists' = [key_exists EXCEPT ![c] = FALSE]
    /\ cmd' = [cmd EXCEPT ![c] = NoCmd]
    /\ decoded' = [decoded EXCEPT ![c] = NoneOpt]
    /\ mutex' = GuardDropped(c)
    /\ pc' = [pc EXCEPT ![c] = "write"]
    /\ UNCHANGED <<clock, pending, sent, cur, response, entry, out, lookup_at>>
    /\ UNCHANGED <<startup, net>>

\* `stream.write_all(response...)`, the end of the loop body, and after the
\* last value `agg.clear()` and the next read.
Write(c) ==
    /\ pc[c] = "write"
    /\ out' = [out EXCEPT ![c] = Append(out[c], cur[c])]
    /\ cur' = [cur EXCEPT ![c] = 0]
    /\ response' = [response EXCEPT ![c] = NoResp]
    /\ cmd' = [cmd EXCEPT ![c] = NoCmd]
    /\ lookup_at' = [lookup_at EXCEPT ![c] = NoneOpt]
    /\ pc' = [pc EXCEPT ![c] = IF pending[c] = <<>> THEN "read" ELSE "next"]
    /\ UNCHANGED <<clock, db, mutex, pending, sent, entry, key_exists, decoded,
                   lastSet, lastSkip>>
    /\ UNCHANGED <<startup, net>>

Next ==
    \/ Tick
    \/ \E c \in Conns :
         \/ Read(c)
         \/ ReadError(c)
         \/ IntoCommand(c)
         \/ AsResponse(c)
         \/ DbGetLookup(c)
         \/ DbGetReturn(c)
         \/ DbSetObserve(c)
         \/ DbSetApply(c)
         \/ Write(c)

Spec == Init /\ [][Next]_vars

\* ------------------------------------ the server under any startup conditions
\* What the snapshot file at directory/dbfilename decodes to (rdb.rs, the
\* `data` of load_db's record), or None when there is no file.
Snapshots ==
    { NoneOpt,
      Some([k \in {MainKey} |-> DBEntry(B("b"), NoneOpt)]),
      Some([k \in {MainKey} |-> DBEntry(B("b"), Some(1))]) }

\* main with any of the command lines and snapshot files: CONFIG is the
\* parsed command line, DB is a new HashMap, and the file is not read.
StartupInit ==
    /\ ServerInit
    /\ config \in { ParseArgs(cl, DefaultArgs) : cl \in CommandLines }
    /\ disk \in Snapshots
    /\ NetIdle
    /\ LoaderIdle

StartupIntoCommand(c) == IntoCommandOf(c, StartupRequests)

StartupNext ==
    \/ Tick
    \/ \E c \in Conns :
         \/ Read(c)
         \/ ReadError(c)
         \/ StartupIntoCommand(c)
         \/ AsResponse(c)
         \/ DbGetLookup(c)
         \/ DbGetReturn(c)
         \/ DbSetObserve(c)
         \/ DbSetApply(c)
         \/ Write(c)

StartupSpec == StartupInit /\ [][StartupNext]_vars

\* ------------------------------------------------------- the wire format
\* Text at the level of bytes is a sequence of one-character strings.
CR == "\r"
LF == "\n"
\* SEPARATOR
SEPARATOR == <<CR, LF>>

Digits == <<"0", "1", "2", "3", "4", "5", "6", "7", "8", "9">>
\* The value of a decimal digit, or -1 for another character.
DigitVal(ch) ==
    IF \E d \in 1..Len(Digits) : Digits[d] = ch
    THEN (CHOOSE d \in 1..Len(Digits) : Digits[d] = ch) - 1
    ELSE -1

\* Display of an unsigned integer: its decimal digits.
RECURSIVE FormatNat(_)
FormatNat(n) ==
    IF n < Len(Digits) THEN <<Digits[n + 1]>>
    ELSE FormatNat(n \div Len(Digits)) \o <<Digits[(n % Len(Digits)) + 1]>>

\* Display of an i64.
FormatInt(i) == IF i < 0 THEN <<"-">> \o FormatNat(0 - i) ELSE FormatNat(i)

\* The value of a non-empty run of decimal digits, None for anything else.
RECURSIVE ParseDigits(_, _)
ParseDigits(cs, acc) ==
    IF cs = <<>> THEN Some(acc)
    ELSE IF DigitVal(Head(cs)) < 0 THEN NoneOpt
    ELSE ParseDigits(Tail(cs), acc * Len(Digits) + DigitVal(Head(cs)))

\* str::parse::<usize>(): digits after an optional `+`.
ParseUsize(cs) ==
    LET ds == IF cs # <<>> /\ Head(cs) = "+" THEN Tail(cs) ELSE cs IN
    IF ds = <<>> THEN NoneOpt ELSE ParseDigits(ds, 0)

\* str::parse::<i64>(): digits after an optional `+` or `-`.
ParseI64(cs) ==
    IF cs # <<>> /\ Head(cs) = "-"
    THEN LET n == IF Tail(cs) = <<>> THEN NoneOpt ELSE ParseDigits(Tail(cs), 0) IN
         IF n = NoneOpt THEN NoneOpt ELSE Some(0 - n[1])
    ELSE ParseUsize(cs)

\* Display for RESPValue.
RECURSIVE Encode(_)
RECURSIVE EncodeAll(_)
Encode(v) ==
    CASE v.type = "SimpleString" -> <<"+">> \o v.s \o SEPARATOR
      [] v.type = "Error" -> <<"-">> \o v.s \o SEPARATOR
      [] v.type = "Integer" -> <<":">> \o FormatInt(v.i) \o SEPARATOR
      [] v.type = "BulkString" ->
           <<"$">> \o FormatNat(Len(v.s)) \o SEPARATOR \o v.s \o SEPARATOR
      [] v.type = "Array" ->
           <<"*">> \o FormatNat(Len(v.items)) \o SEPARATOR \o EncodeAll(v.items)
\* The encodings of a sequence of values, one after the other.
EncodeAll(vs) == IF vs = <<>> THEN <<>> ELSE Encode(Head(vs)) \o EncodeAll(Tail(vs))

\* A split at each line feed, the carriage returns left in the parts.
RECURSIVE SplitAtLf(_)
SplitAtLf(text) ==
    IF \E i \in 1..Len(text) : text[i] = LF
    THEN LET i == CHOOSE i \in 1..Len(text) :
                    /\ text[i] = LF
                    /\ \A j \in 1..(i - 1) : text[j] # LF
         IN <<SubSeq(text, 1, i - 1)>> \o SplitAtLf(SubSeq(text, i + 1, Len(text)))
    ELSE <<text>>

\* The index of the first SEPARATOR in text, 0 if there is none.
FirstSeparator(text) ==
    LET At(i) == text[i] = CR /\ text[i + 1] = LF IN
    IF \E i \in 1..(Len(text) - 1) : At(i)
    THEN CHOOSE i \in 1..(Len(text) - 1) : At(i) /\ \A j \in 1..(i - 1) : ~At(j)
    ELSE 0

\* input.split(SEPARATOR): the parts between the separators, from left to
\* right; text without a separator is one part, text ending in one has an
\* empty last part.
RECURSIVE Split(_)
Split(text) ==
    LET i == FirstSeparator(text) IN
    IF i = 0 THEN <<text>>
    ELSE <<SubSeq(text, 1, i - 1)>> \o Split(SubSeq(text, i + 2, Len(text)))

\* The outcomes of the parser: a panic (and what panicked), or a result.
ParsePanic(why) == [ok |-> FALSE, why |-> why]

\* parse_input_segments: the value at the head of the parts, and the parts
\* left in the iterator.
RECURSIVE parse_input_segments(_)
RECURSIVE ParseItems(_, _, _)
parse_input_segments(parts) ==
    IF parts = <<>> THEN ParsePanic("unwrap")
    ELSE IF Head(parts) = <<>> THEN ParsePanic("unwrap")
    ELSE LET prefix == Head(parts)[1]
             rest == Tail(Head(parts))
             more == Tail(parts)
         IN CASE prefix = "+" -> [ok |-> TRUE, value |-> SimpleString(rest), rest |-> more]
              [] prefix = "-" -> [ok |-> TRUE, value |-> Error(rest), rest |-> more]
              [] prefix = ":" ->
                   IF ParseI64(rest) = NoneOpt THEN ParsePanic("unwrap")
                   ELSE [ok |-> TRUE, value |-> Integer(ParseI64(rest)[1]), rest |-> more]
              [] prefix = "$" ->
                   IF more = <<>> THEN ParsePanic("unwrap")
                   ELSE [ok |-> TRUE, value |-> BulkString(Head(more)), rest |-> Tail(more)]
              [] prefix = "*" ->
                   IF ParseUsize(rest) = NoneOpt THEN ParsePanic("unwrap")
                   ELSE ParseItems(more, ParseUsize(rest)[1], <<>>)
              [] OTHER -> ParsePanic("Unknown prefix")
\* The `for _ in 0..len` loop of the array arm: n values are still to be parsed.
ParseItems(parts, n, values) ==
    IF n = 0 THEN [ok |-> TRUE, value |-> Array(values), rest |-> parts]
    ELSE LET r == parse_input_segments(parts) IN
         IF ~r.ok THEN r ELSE ParseItems(r.rest, n - 1, Append(values, r.value))

\* The while loop of parse_input.
RECURSIVE ParseLoop(_, _)
ParseLoop(parts, values) ==
    IF parts = <<>> \/ Head(parts) = <<>> THEN [ok |-> TRUE, values |-> values]
    ELSE LET r == parse_input_segments(parts) IN
         IF ~r.ok THEN r ELSE ParseLoop(r.rest, Append(values, r.value))

\* parse_input
parse_input(input) == ParseLoop(Split(input), <<>>)

\* ------------------------------------------- the parser on encoded values
\* The texts of the model, as bytes.
Chars(w) ==
    CASE w = "" -> <<>>
      [] w = "OK" -> <<"O", "K">>
      [] w = "ERR" -> <<"E", "R", "R">>
      [] w = "PING" -> <<"P", "I", "N", "G">>
      [] w = "COMMAND" -> <<"C", "O", "M", "M", "A", "N", "D">>
      [] w = "ECHO" -> <<"E", "C", "H", "O">>
      [] w = "hey" -> <<"h", "e", "y">>

\* RESP values of the supported subset: simple strings, errors, integers,
\* bulk strings (empty, with a lone CR, with a lone LF), arrays (empty, flat,
\* nested).
CodecValues ==
    { SimpleString(Chars("OK")), SimpleString(Chars("")), Error(Chars("ERR")),
      Integer(0), Integer(0 - 1), Integer(12),
      BulkString(Chars("hey")), BulkString(Chars("")), BulkString(<<CR>>),
      BulkString(<<LF>>),
      Array(<<>>),
      Array(<<BulkString(Chars("ECHO")), BulkString(Chars("hey"))>>),
      Array(<<Array(<<Integer(0 - 1)>>), BulkString(Chars("")), Array(<<>>)>>) }

\* The sequences of at most n elements of S.
SeqUpTo(S, n) == UNION { [1..k -> S] : k \in 0..n }

\* The values v1..vk to encode; the rest of the state is at rest.
CodecInit ==
    /\ ServerInit
    /\ config = ParseArgs(<<>>, DefaultArgs)
    /\ disk = NoneOpt
    /\ peer = "open"
    /\ wire = <<>>
    /\ sock = <<>>
    /\ agg = <<>>
    /\ inputs = <<>>
    /\ wpc = "encode"
    /\ eof = FALSE
    /\ frames \in SeqUpTo(CodecValues, MaxVals)
    /\ executed = <<>>
    /\ LoaderIdle

\* The text of the values: their Display outputs, one after the other.
CodecEncode ==
    /\ wpc = "encode"
    /\ agg' = EncodeAll(frames)
    /\ wpc' = "parse"
    /\ UNCHANGED <<server, startup, peer, wire, sock, inputs, eof, frames, executed>>

\* parse_input on the text.
CodecParse ==
    /\ wpc = "parse"
    /\ LET r == parse_input(agg) IN
         IF r.ok
         THEN inputs' = r.values /\ wpc' = "parsed"
         ELSE inputs' = <<>> /\ wpc' = "panicked"
    /\ UNCHANGED <<server, startup, peer, wire, sock, agg, eof, frames, executed>>

CodecNext == CodecEncode \/ CodecParse

CodecSpec == CodecInit /\ [][CodecNext]_vars

\* ------------------------------------------- one connection, byte by byte
\* The texts the command decoder tells apart.
Words == {"", "OK", "ERR", "PING", "COMMAND", "ECHO", "hey"}
\* Any text that is none of the Words.
OtherText == "?"
\* The String of a parsed value as the decoder compares it.
Text(cs) ==
    IF \E w \in Words : Chars(w) = cs
    THEN CHOOSE w \in Words : Chars(w) = cs
    ELSE OtherText

\* A parsed value as RESPValue::into_command matches on it.
RECURSIVE Decodable(_)
Decodable(v) ==
    CASE v.type = "Array" -> Array([i \in 1..Len(v.items) |-> Decodable(v.items[i])])
      [] v.type = "Integer" -> v
      [] OTHER -> [type |-> v.type, s |-> Text(v.s)]

\* Bytes the client writes that are no RESP value of the parser.
RawFrame(cs) == [type |-> "Raw", s |-> cs]

\* What the client writes in one piece: the inline PING, the inline COMMAND
\* (as long as the buffer), ECHO hey as an array, and a line whose first byte
\* is no prefix.
ClientFrames ==
    { SimpleString(Chars("PING")),
      SimpleString(Chars("COMMAND")),
      Array(<<BulkString(Chars("ECHO")), BulkString(Chars("hey"))>>),
      RawFrame(<<"?">> \o SEPARATOR) }

\* The bytes of a frame.
FrameText(f) == IF f.type = "Raw" THEN f.s ELSE Encode(f)

\* One connection accepted, its thread before the first read.
WireInit ==
    /\ ServerInit
    /\ config = ParseArgs(<<>>, DefaultArgs)
    /\ disk = NoneOpt
    /\ peer = "open"
    /\ wire = <<>>
    /\ sock = <<>>
    /\ agg = <<>>
    /\ inputs = <<>>
    /\ wpc = "read"
    /\ eof = FALSE
    /\ frames = <<>>
    /\ executed = <<>>
    /\ LoaderIdle

\* The client writes a frame.
ClientWrite(f) ==
    /\ peer = "open"
    /\ Len(frames) < MaxFrames
    /\ wire' = wire \o FrameText(f)
    /\ frames' = Append(frames, f)
    /\ UNCHANGED <<server, startup, peer, sock, agg, inputs, wpc, eof, executed>>

\* The client closes its end: once the bytes in flight have arrived and have
\* been read, a read returns 0.
ClientClose ==
    /\ peer = "open"
    /\ peer' = "closed"
    /\ UNCHANGED <<server, startup, wire, sock, agg, inputs, wpc, eof, frames, executed>>

\* Some of the bytes in flight arrive: TCP keeps their order and no frame
\* boundary.
Deliver ==
    /\ wire # <<>>
    /\ \E k \in 1..Len(wire) :
         /\ sock' = sock \o SubSeq(wire, 1, k)
         /\ wire' = SubSeq(wire, k + 1, Len(wire))
    /\ UNCHANGED <<server, startup, peer, agg, inputs, wpc, eof, frames, executed>>

\* handle_connection, lines 133-137: `Ok(n)` with a full buffer.
ReadFull ==
    /\ wpc = "read"
    /\ Len(sock) >= BUFFER_SIZE
    /\ agg' = agg \o SubSeq(sock, 1, BUFFER_SIZE)
    /\ sock' = SubSeq(sock, BUFFER_SIZE + 1, Len(sock))
    /\ UNCHANGED <<server, startup, peer, wire, inputs, wpc, eof, frames, executed>>

\* handle_connection, lines 113-131 up to the for loop: `Ok(n) if n <
\* BUFFER_SIZE`.  The read returns the n bytes that have arrived, and 0 only
\* at the end of the stream; with nothing aggregated and n = 0 the loop
\* continues, otherwise the aggregate is parsed, and cleared at once when it
\* holds no value.  parse_input panics on text it cannot parse.
ReadShort ==
    /\ wpc = "read"
    /\ Len(sock) < BUFFER_SIZE
    /\ sock # <<>> \/ (wire = <<>> /\ peer = "closed")
    /\ eof' = (eof \/ sock = <<>>)
    /\ sock' = <<>>
    /\ IF agg = <<>> /\ sock = <<>>
       THEN UNCHANGED <<agg, inputs, wpc>>
       ELSE LET r == parse_input(agg \o sock) IN
            IF ~r.ok
            THEN agg' = agg \o sock /\ inputs' = <<>> /\ wpc' = "panicked"
            ELSE IF r.values = <<>>
            THEN agg' = <<>> /\ inputs' = <<>> /\ wpc' = "read"
            ELSE agg' = agg \o sock /\ inputs' = r.values /\ wpc' = "next"
    /\ UNCHANGED <<server, startup, peer, wire, frames, executed>>

\* handle_connection, lines 124-130: one turn of the for loop, decoding,
\* executing and replying to the next value, and `agg.clear()` after the
\* last.  into_command panics on a value that is no command.
LoopBody ==
    /\ wpc = "next"
    /\ LET command == into_command(Decodable(Head(inputs)), clock) IN
         IF command = Panic
         THEN /\ wpc' = "panicked"
              /\ UNCHANGED <<agg, inputs, executed>>
         ELSE /\ executed' = Append(executed, command)
              /\ inputs' = Tail(inputs)
              /\ agg' = IF Tail(inputs) = <<>> THEN <<>> ELSE agg
              /\ wpc' = IF Tail(inputs) = <<>> THEN "read" ELSE "next"
    /\ UNCHANGED <<server, startup, peer, wire, sock, eof, frames>>

\* handle_connection, lines 138-146: a read error ends the loop and the
\* stream is shut down.
WireReadError ==
    /\ wpc = "read"
    /\ wpc' = "closed"
    /\ UNCHANGED <<server, startup, peer, wire, sock, agg, inputs, eof, frames, executed>>

WireNext ==
    \/ \E f \in ClientFrames : ClientWrite(f)
    \/ ClientClose
    \/ Deliver
    \/ ReadFull
    \/ ReadShort
    \/ LoopBody
    \/ WireReadError

WireSpec == WireInit /\ [][WireNext]_vars

\* --------------------------------------------------- the snapshot decoder
\* Bytes are the numbers 0..255; a String is the sequence of its bytes.
Radix == 256
\* The opcodes load_db compares the first byte of a section with.
MetadataOp == 250
ResizeOp == 251
ExpiryMsOp == 252
ExpirySecOp == 253
SelectDbOp == 254
EofOp == 255
\* b'0'
AsciiZero == 48
\* MAGIC_STRING: "REDIS"
MAGIC_STRING == <<82, 69, 68, 73, 83>>
HeaderLen == 9
ChecksumLen == 8
MsStampLen == 8
SecStampLen == 4

\* Instants and sizes of MaxStamp and above are one value of the model.
MaxStamp == Radix * Radix * Radix

\* uN::from_le_bytes, saturating at MaxStamp.
RECURSIVE from_le_bytes(_)
from_le_bytes(bs) ==
    IF bs = <<>> THEN 0
    ELSE LET rest == from_le_bytes(Tail(bs)) IN
         IF rest >= MaxStamp \div Radix THEN MaxStamp
         ELSE Head(bs) + Radix * rest

\* Duration::from_secs as milliseconds, saturating at MaxStamp.
from_secs(s) == IF s >= MaxStamp \div MsPerSec THEN MaxStamp ELSE s * MsPerSec

\* Long division by ten of a number given by its bytes, most significant
\* first: the quotient's bytes and the remainder.
RECURSIVE DivTen(_, _)
DivTen(be, r) ==
    IF be = <<>> THEN [q |-> <<>>, r |-> r]
    ELSE LET n == r * Radix + Head(be)
             rest == DivTen(Tail(be), n % Len(Digits))
         IN [q |-> <<n \div Len(Digits)>> \o rest.q, r |-> rest.r]

RECURSIVE DecimalOf(_)
DecimalOf(be) ==
    LET d == DivTen(be, 0) IN
    IF \A i \in 1..Len(d.q) : d.q[i] = 0 THEN <<AsciiZero + d.r>>
    ELSE DecimalOf(d.q) \o <<AsciiZero + d.r>>

Reverse(s) == [i \in 1..Len(s) |-> s[Len(s) + 1 - i]]

\* usize::to_string of the unsigned integer with the little-endian bytes le,
\* exact at every width.
to_string(le) == DecimalOf(Reverse(le))

\* str::parse of a run of decimal digits, saturating at MaxStamp.
RECURSIVE ParseDecimal(_, _)
ParseDecimal(ds, acc) ==
    IF ds = <<>> THEN acc
    ELSE LET n == acc * Len(Digits) + (Head(ds) - AsciiZero) IN
         ParseDecimal(Tail(ds), IF n >= MaxStamp THEN MaxStamp ELSE n)

\* String::from_utf8 succeeds.  Every text of the files is ASCII; a byte of
\* 128 and above is well-formed only inside a multi-byte sequence, which no
\* read of a file of the model meets, and is taken as an error.
from_utf8_ok(bs) == \A i \in 1..Len(bs) : bs[i] < Radix \div 2

\* Results of the reads: Ok(String) with the cursor after it, Err (the `?`
\* of a failed read_exact or from_utf8) or a panic (unreachable!()).
RdbOk(s, at) == [res |-> "ok", s |-> s, at |-> at]
RdbErr == [res |-> "err", s |-> <<>>, at |-> 0]
RdbPanic == [res |-> "panic", s |-> <<>>, at |-> 0]

\* file.read_exact of n bytes at the cursor succeeds.
CanRead(f, at, n) == at + n <= Len(f)
Bytes(f, at, n) == SubSeq(f, at + 1, at + n)

\* The `length` bytes after the cursor as a String; zeros tells whether 0
\* bytes are converted to b'0' (the six-bit form only).
ReadString(f, at, length, zeros) ==
    IF ~CanRead(f, at, length) THEN RdbErr
    ELSE LET raw == Bytes(f, at, length)
             val == [i \in 1..length |->
                        IF zeros /\ raw[i] = 0 THEN AsciiZero ELSE raw[i]]
         IN IF from_utf8_ok(val) THEN RdbOk(val, at + length) ELSE RdbErr

\* The widths of the special integer formats, by the low six bits.
upcoming_bytes(low) == CASE low = 0 -> 1 [] low = 1 -> 2 [] low = 2 -> 4

\* extract_value(byte, file, lek) with the file's cursor at `at`.  The match
\* is on `nullified`, the top two bits alone, so that every byte with both
\* bits set takes the arm of the special integers and the arm of the
\* compressed string (0b11000011) is never taken.
extract_value(byte, f, at, lek) ==
    LET top == byte \div (Radix \div 4)
        remaining_bits == byte % (Radix \div 4)
    IN CASE top = 0 ->
              IF remaining_bits = 0 THEN RdbOk(<<AsciiZero>>, at)
              ELSE IF lek = "Integer" THEN RdbOk(to_string(<<remaining_bits>>), at)
              ELSE ReadString(f, at, remaining_bits, TRUE)
         [] top = 1 ->
              IF ~CanRead(f, at, 1) THEN RdbErr
              ELSE LET le == <<remaining_bits, f[at + 1]>> IN
                   IF lek = "Integer" THEN RdbOk(to_string(le), at + 1)
                   ELSE ReadString(f, at + 1, from_le_bytes(le), FALSE)
         [] top = 2 ->
              IF ~CanRead(f, at, 4) THEN RdbErr
              ELSE LET le == Bytes(f, at, 4) IN
                   IF lek = "Integer" THEN RdbOk(to_string(le), at + 4)
                   ELSE ReadString(f, at + 4, from_le_bytes(le), FALSE)
         [] top = 3 ->
              IF remaining_bits > 2 THEN RdbPanic
              ELSE LET n == upcoming_bytes(remaining_bits) IN
                   IF ~CanRead(f, at, n) THEN RdbErr
                   ELSE RdbOk(to_string(Bytes(f, at, n)), at + n)

\* One byte read, then extract_value on it.
ReadValue(f, at, lek) ==
    IF ~CanRead(f, at, 1) THEN RdbErr
    ELSE extract_value(f[at + 1], f, at + 1, lek)

\* Rdb::default() with the fields load_db fills.
EmptyRdb ==
    [version |-> <<>>, metadata |-> EmptyMap, db_hash_table_size |-> 0,
     expiry_hash_table_size |-> 0, selected_db |-> 0, data |-> EmptyMap,
     original_checksum |-> 0]

\* What one step of load_db leaves: the position, the cursor, the record.
Loaded(d, at) == [lpc |-> "loaded", at |-> at, d |-> d]
Failed(res, d) ==
    [lpc |-> IF res = "panic" THEN "panicked" ELSE "err", at |-> 0, d |-> d]
Looping(d, at) == [lpc |-> "section", at |-> at, d |-> d]

\* The header: nine bytes, the magic string and the version.
Header(f, d) ==
    IF ~CanRead(f, 0, HeaderLen) THEN Failed("err", d)
    ELSE LET buf == Bytes(f, 0, HeaderLen)
             magic == SubSeq(buf, 1, Len(MAGIC_STRING))
             version == SubSeq(buf, Len(MAGIC_STRING) + 1, HeaderLen)
         IN IF ~from_utf8_ok(magic) \/ magic # MAGIC_STRING \/ ~from_utf8_ok(version)
            THEN Failed("err", d)
            ELSE Looping([d EXCEPT !.version = version], HeaderLen)

\* The metadata section: key and value, both Strings.
MetadataSection(f, at, d) ==
    LET key == ReadValue(f, at, "String") IN
    IF key.res # "ok" THEN Failed(key.res, d)
    ELSE LET value == ReadValue(f, key.at, "String") IN
         IF value.res # "ok" THEN Failed(value.res, d)
         ELSE Looping([d EXCEPT !.metadata = MapInsert(@, key.s, value.s)], value.at)

\* The database selector.
SelectorSection(f, at, d) ==
    LET selected_db == ReadValue(f, at, "Integer") IN
    IF selected_db.res # "ok" THEN Failed(selected_db.res, d)
    ELSE Looping([d EXCEPT !.selected_db = ParseDecimal(selected_db.s, 0)],
                 selected_db.at)

\* The resize hint: the two table sizes.
ResizeSection(f, at, d) ==
    LET db_size == ReadValue(f, at, "Integer") IN
    IF db_size.res # "ok" THEN Failed(db_size.res, d)
    ELSE LET expires_size == ReadValue(f, db_size.at, "Integer") IN
         IF expires_size.res # "ok" THEN Failed(expires_size.res, d)
         ELSE Looping([d EXCEPT
                          !.db_hash_table_size = ParseDecimal(db_size.s, 0),
                          !.expiry_hash_table_size = ParseDecimal(expires_size.s, 0)],
                      expires_size.at)

\* The end of the file: the checksum, and the loop is left.
EofSection(f, at, d) ==
    IF ~CanRead(f, at, ChecksumLen) THEN Failed("err", d)
    ELSE Loaded([d EXCEPT !.original_checksum = from_le_bytes(Bytes(f, at, ChecksumLen))],
                at + ChecksumLen)

\* Key and value of a data entry; key_start_byte is read at key_at - 1.
KeyAndValue(f, key_start_byte, key_at, expiry, d) ==
    LET key == extract_value(key_start_byte, f, key_at, "String") IN
    IF key.res # "ok" THEN Failed(key.res, d)
    ELSE LET value == ReadValue(f, key.at, "String") IN
         IF value.res # "ok" THEN Failed(value.res, d)
         ELSE Looping([d EXCEPT !.data =
                          MapInsert(@, key.s, DBEntry(SimpleString(value.s), expiry))],
                      value.at)

\* A data entry.  The byte that opened the section is taken as the type tag
\* (extract_datatype, for a println only); the byte after it is matched
\* against the two expiry opcodes, and is the first byte of the key when the
\* entry has no expiry, a zero expiry in seconds included.
DataSection(f, at, d) ==
    IF ~CanRead(f, at, 1) THEN Failed("err", d)
    ELSE LET b == f[at + 1] IN
         CASE b = ExpirySecOp ->
                IF ~CanRead(f, at + 1, SecStampLen) THEN Failed("err", d)
                ELSE LET expiry == from_le_bytes(Bytes(f, at + 1, SecStampLen))
                         after == at + 1 + SecStampLen
                     IN IF expiry = 0
                        THEN KeyAndValue(f, b, after, NoneOpt, d)
                        ELSE IF ~CanRead(f, after, 1) THEN Failed("err", d)
                        ELSE KeyAndValue(f, f[after + 1], after + 1,
                                         Some(from_secs(expiry)), d)
           [] b = ExpiryMsOp ->
                IF ~CanRead(f, at + 1, MsStampLen) THEN Failed("err", d)
                ELSE LET expiry == from_le_bytes(Bytes(f, at + 1, MsStampLen))
                         after == at + 1 + MsStampLen
                     IN IF expiry = 0
                        THEN Looping(d, after)
                        ELSE IF ~CanRead(f, after, 1) THEN Failed("err", d)
                        ELSE KeyAndValue(f, f[after + 1], after + 1, Some(expiry), d)
           [] OTHER -> KeyAndValue(f, b, at + 1, NoneOpt, d)

\* One turn of load_db's loop.
Section(f, at, d) ==
    IF ~CanRead(f, at, 1) THEN Failed("err", d)
    ELSE LET op == f[at + 1] IN
         CASE op = MetadataOp -> MetadataSection(f, at + 1, d)
           [] op = SelectDbOp -> SelectorSection(f, at + 1, d)
           [] op = ResizeOp -> ResizeSection(f, at + 1, d)
           [] op = EofOp -> EofSection(f, at + 1, d)
           [] OTHER -> DataSection(f, at + 1, d)

\* ---------------------------------------------------------- snapshot files
MaxEntries == 2

\* The little-endian bytes of n at the given width, as a writer stores them.
RECURSIVE to_le_bytes(_, _)
to_le_bytes(n, width) ==
    IF width = 0 THEN <<>>
    ELSE <<n % Radix>> \o to_le_bytes(n \div Radix, width - 1)

\* Length-prefixed texts: foo, baz, a, b, ver.
TextFoo == <<3, 102, 111, 111>>
TextBaz == <<3, 98, 97, 122>>
TextA == <<1, 97>>
TextB == <<1, 98>>
TextVer == <<3, 118, 101, 114>>
\* The type tag of a string value.
StringTag == 0

\* Bytes of the special integers: the extremes of each half of the range.
IntBytes == {0, 127, 128, 255}

\* The entries files are written from.  layout "plain": tag, key, value;
\* "prefix": expiry opcode, stamp, tag, key, value (the layout of the RDB
\* format); "tagfirst": tag, expiry opcode, stamp, key, value (the layout
\* load_db's data arm reads).  The value is a length-prefixed text or one of
\* the special integers (low is then the low six bits of its first byte, val
\* its little-endian bytes).
PlainEntry(key, val) ==
    [layout |-> "plain", unit |-> "none", stamp |-> 0, key |-> key,
     enc |-> "str", low |-> 0, val |-> val]
ExpiringEntry(layout, unit, stamp) ==
    [layout |-> layout, unit |-> unit, stamp |-> stamp, key |-> TextFoo,
     enc |-> "str", low |-> 0, val |-> TextB]
IntEntry(low, payload) ==
    [layout |-> "plain", unit |-> "none", stamp |-> 0, key |-> TextFoo,
     enc |-> "int", low |-> low, val |-> payload]

Stamps == {0, 5}
ExpiryEntries ==
    { PlainEntry(TextBaz, TextA) }
    \cup { ExpiringEntry(l, u, t) :
             l \in {"prefix", "tagfirst"}, u \in {"ms", "s"}, t \in Stamps }
IntEntries ==
    UNION { { IntEntry(low, p) : p \in [1..upcoming_bytes(low) -> IntBytes] } :
            low \in 0..2 }

ExpiryBytes(e) ==
    CASE e.unit = "ms" -> <<ExpiryMsOp>> \o to_le_bytes(e.stamp, MsStampLen)
      [] e.unit = "s" -> <<ExpirySecOp>> \o to_le_bytes(e.stamp, SecStampLen)
      [] OTHER -> <<>>
ValueBytes(e) ==
    IF e.enc = "str" THEN e.val ELSE <<3 * (Radix \div 4) + e.low>> \o e.val
EntryBytes(e) ==
    CASE e.layout = "prefix" -> ExpiryBytes(e) \o <<StringTag>> \o e.key \o ValueBytes(e)
      [] e.layout = "tagfirst" -> <<StringTag>> \o ExpiryBytes(e) \o e.key \o ValueBytes(e)
      [] OTHER -> <<StringTag>> \o e.key \o ValueBytes(e)

RECURSIVE EntriesBytes(_)
EntriesBytes(es) ==
    IF es = <<>> THEN <<>> ELSE EntryBytes(Head(es)) \o EntriesBytes(Tail(es))

\* REDIS0011
FileHeader == MAGIC_STRING \o <<48, 48, 49, 49>>
\* What precedes the entries: nothing, or a metadata section (ver: the
\* special integer 7), the selector of database 0 and a resize hint in the
\* 14-bit and 32-bit length forms.
Prologues ==
    { <<>>,
      <<MetadataOp>> \o TextVer \o <<192, 7>>
        \o <<SelectDbOp, 0>>
        \o <<ResizeOp, 65, 0, 128, 2, 0, 0, 0>> }
FileTrailer == <<EofOp>> \o to_le_bytes(0, ChecksumLen)

FileOf(p, es) == FileHeader \o p \o EntriesBytes(es) \o FileTrailer

\* The entries of the files: up to MaxEntries entries with and without
\* expiry, or one entry whose value is a special integer.
EntryLists ==
    SeqUpTo(ExpiryEntries, MaxEntries) \cup { <<e>> : e \in IntEntries }

\* load_db on any of the files, the file just opened.
RdbInit ==
    /\ ServerInit
    /\ config = ParseArgs(<<>>, DefaultArgs)
    /\ disk = NoneOpt
    /\ NetIdle
    /\ written \in EntryLists
    /\ \E p \in Prologues : file = FileOf(p, written)
    /\ offset = 0
    /\ db_data = EmptyRdb
    /\ lpc = "open"

Step(r) ==
    /\ lpc' = r.lpc
    /\ offset' = r.at
    /\ db_data' = r.d
    /\ UNCHANGED <<server, config, disk, net, file, written>>

LoadHeader ==
    /\ lpc = "open"
    /\ Step(Header(file, db_data))

LoadSection ==
    /\ lpc = "section"
    /\ Step(Section(file, offset, db_data))

RdbNext == LoadHeader \/ LoadSection

RdbSpec == RdbInit /\ [][RdbNext]_vars

\* -------------------------------------------------------------- properties
\* The step in which connection c's db_get returns.
GetReturns(c) == pc[c] = "db_get" /\ pc'[c] # "db_get"
\* The step in which connection c's db_set skips or inserts, and returns.
SetReturns(c) == pc[c] = "db_set" /\ pc'[c] # "db_set"
\* The deadline of an applied SET with a PX option: decoding instant + duration.
Deadline(ls) == ls.px[1].at + ls.px[1].px
\* An entry is logically expired iff expires_at is present and the instant
\* `now` strictly exceeds it.
LogicallyExpired(e, now) == e.expires_at # NoneOpt /\ now > e.expires_at[1]
\* The entry an applied SET stores: its value, and its deadline if it has one.
EntryOf(ls) == DBEntry(ls.value, IF ls.px = NoneOpt THEN NoneOpt ELSE Some(Deadline(ls)))

\* C1: for a SET with the GET option, the value replied is the live entry the
\* SET replaces, or null when it replaces none: at the moment db_set decides to
\* insert, a null reply means no live entry is in the map, and a value reply
\* means the map holds that value.
C1_SetGetAtomic ==
    \A c \in Conns :
      (/\ pc[c] = "db_set"
       /\ cmd[c].opts.get
       /\ ~DbSetSkips(key_exists[c], cmd[c].opts.condition))
      => LET prior == MapGet(db, cmd[c].key) IN
           /\ response[c] = RespNull
                => (prior = NoneOpt \/ LogicallyExpired(prior[1], clock))
           /\ response[c].kind = "Echo"
                => (prior # NoneOpt /\ prior[1].value = response[c].value)

\* C2: db_get (for GET and for the prior-value read of SET ... GET) never
\* returns the value of an entry that was expired at the moment of the lookup;
\* it returns null for it.
C2_NoExpiredValue ==
    [][\A c \in Conns :
         (GetReturns(c) /\ entry[c] # NoneOpt /\ LogicallyExpired(entry[c][1], lookup_at[c][1]))
         => response'[c] = RespNull]_vars

\* C2 witness: a GET has replied null for a key some SET wrote and whose
\* expired entry the GET removed.
C2_Witness ==
    \E c \in Conns :
      /\ pc[c] = "write"
      /\ cmd[c].name = "Get"
      /\ response[c] = RespNull
      /\ lastSet[cmd[c].key] # NoneOpt
      /\ lastSet[cmd[c].key][1].px # NoneOpt
      /\ lookup_at[c][1] > Deadline(lastSet[cmd[c].key][1])
      /\ cmd[c].key \notin DOMAIN db

\* C3 as stated: after SET k v PX t with deadline d, and while no other SET on
\* k is applied, GET k returns v at every instant now < d and null at every
\* instant now >= d.
C3_AsStated ==
    [][\A c \in Conns :
         (/\ GetReturns(c)
          /\ cmd[c].name = "Get"
          /\ lastSet[cmd[c].key] # NoneOpt
          /\ lastSet[cmd[c].key][1].px # NoneOpt)
         => LET ls == lastSet[cmd[c].key][1] IN
              response'[c] = IF clock < Deadline(ls) THEN RespEcho(ls.value) ELSE RespNull]_vars

\* C3 amended: GET k returns v at every instant now <= d, the instant d
\* included, and null at every instant now > d.
C3_StrictDeadline ==
    [][\A c \in Conns :
         (/\ GetReturns(c)
          /\ cmd[c].name = "Get"
          /\ lastSet[cmd[c].key] # NoneOpt
          /\ lastSet[cmd[c].key][1].px # NoneOpt)
         => LET ls == lastSet[cmd[c].key][1] IN
              response'[c] = IF clock <= Deadline(ls) THEN RespEcho(ls.value) ELSE RespNull]_vars

\* C3 witness: a GET whose lookup happened exactly at the deadline of the PX
\* SET last applied to its key has replied that SET's value.
C3_Witness ==
    \E c \in Conns :
      /\ pc[c] = "write"
      /\ cmd[c].name = "Get"
      /\ lastSet[cmd[c].key] # NoneOpt
      /\ lastSet[cmd[c].key][1].px # NoneOpt
      /\ lookup_at[c] = Some(Deadline(lastSet[cmd[c].key][1]))
      /\ response[c] = RespEcho(lastSet[cmd[c].key][1].value)

\* C4: after a SET k v without options has been applied, and until another
\* SET on k is applied, every GET k returns v.
C4_GetAfterPlainSet ==
    [][\A c \in Conns :
         (/\ GetReturns(c)
          /\ cmd[c].name = "Get"
          /\ lastSet[cmd[c].key] # NoneOpt
          /\ lastSet[cmd[c].key][1].plain)
         => response'[c] = RespEcho(lastSet[cmd[c].key][1].value)]_vars

\* C4 witness: a GET has replied the value of the plain SET last applied to
\* its key, which replaced an earlier value, at the end of the clock's range.
C4_Witness ==
    \E c \in Conns :
      /\ pc[c] = "write"
      /\ cmd[c].name = "Get"
      /\ lastSet[cmd[c].key] # NoneOpt
      /\ lastSet[cmd[c].key][1].plain
      /\ response[c] = RespEcho(B("a"))
      /\ lookup_at[c] = Some(MaxTime)

\* C5: an applied SET stores the prior entry's expires_at if KEEPTTL is set
\* and a prior entry exists, and its own opts.expires_at otherwise.
C5_KeepTtl ==
    [][\A c \in Conns :
         (SetReturns(c) /\ ~DbSetSkips(key_exists[c], cmd[c].opts.condition))
         => LET k == cmd[c].key IN
              db'[k].expires_at =
                IF cmd[c].opts.keep_ttl /\ k \in DOMAIN db
                THEN db[k].expires_at
                ELSE cmd[c].opts.expires_at]_vars

\* C6 as stated: SET k v NX on a present key changes no entry and, without the
\* GET option, is replied to with +OK; a following GET k returns the old value.
C6_AsStated ==
    [][\A c \in Conns :
         LET k == cmd[c].key IN
         /\ (SetReturns(c) /\ cmd[c].opts.condition = "IfNotExists" /\ k \in DOMAIN db)
            => (db' = db /\ (~cmd[c].opts.get => response[c] = RespOk))
         /\ (/\ GetReturns(c)
             /\ cmd[c].name = "Get"
             /\ lastSkip[k] # NoneOpt
             /\ lastSkip[k][1].condition = "IfNotExists")
            => response'[c] = RespEcho(lastSkip[k][1].old[1].value)]_vars

\* C6 amended: SET k v NX on a present key changes no entry and, without the
\* GET option, is replied to with +OK; a following GET k returns the old value
\* if the old entry is not expired at the instant of the GET, and null if it is.
C6_NxNoOp ==
    [][\A c \in Conns :
         LET k == cmd[c].key IN
         /\ (SetReturns(c) /\ cmd[c].opts.condition = "IfNotExists" /\ k \in DOMAIN db)
            => (db' = db /\ (~cmd[c].opts.get => response[c] = RespOk))
         /\ (/\ GetReturns(c)
             /\ cmd[c].name = "Get"
             /\ lastSkip[k] # NoneOpt
             /\ lastSkip[k][1].condition = "IfNotExists")
            => LET old == lastSkip[k][1].old[1] IN
                 response'[c] = IF LogicallyExpired(old, clock)
                                THEN RespNull ELSE RespEcho(old.value)]_vars

\* C6 witness: after a SET foo b NX was skipped, a GET has replied the old
\* value a.
C6_Witness ==
    \E c \in Conns :
      /\ pc[c] = "write"
      /\ cmd[c] = CmdGet(MainKey)
      /\ lastSkip[MainKey] # NoneOpt
      /\ lastSkip[MainKey][1].condition = "IfNotExists"
      /\ lastSkip[MainKey][1].old # NoneOpt
      /\ lastSkip[MainKey][1].old[1].value = B("a")
      /\ response[c] = RespEcho(B("a"))

\* C7: SET k v XX on an absent key changes no entry (none is created for k),
\* and a following GET k returns null.
C7_XxNoOp ==
    [][\A c \in Conns :
         LET k == cmd[c].key IN
         /\ (SetReturns(c) /\ cmd[c].opts.condition = "IfExists" /\ k \notin DOMAIN db)
            => db' = db
         /\ (/\ GetReturns(c)
             /\ cmd[c].name = "Get"
             /\ lastSkip[k] # NoneOpt
             /\ lastSkip[k][1].condition = "IfExists"
             /\ lastSkip[k][1].old = NoneOpt)
            => response'[c] = RespNull]_vars

\* C7 witness: after a SET foo b XX on the absent key was skipped, a GET has
\* replied null.
C7_Witness ==
    \E c \in Conns :
      /\ pc[c] = "write"
      /\ cmd[c] = CmdGet(MainKey)
      /\ lastSkip[MainKey] = Some([condition |-> "IfExists", old |-> NoneOpt])
      /\ response[c] = RespNull

\* C8: db_set decides on the key's presence as it is at the moment of the
\* decision: what it observed still holds, a SET NX is skipped iff the key is
\* present, a SET XX is skipped iff the key is absent, an unconditional SET is
\* never skipped.
C8_CheckDecideAtomic ==
    [][\A c \in Conns :
         SetReturns(c)
         => LET k == cmd[c].key
                present == k \in DOMAIN db
                skipped == lastSkip'[k] # NoneOpt
            IN /\ key_exists[c] = present
               /\ cmd[c].opts.condition = "IfNotExists" => (skipped <=> present)
               /\ cmd[c].opts.condition = "IfExists" => (skipped <=> ~present)
               /\ cmd[c].opts.condition = "Always" => ~skipped]_vars

\* C8 witness: two connections are in SET foo _ NX at once on the absent
\* key: one holds the guard and has observed the key absent, the other is
\* waiting for the guard.
C8_Witness ==
    \E c1, c2 \in Conns :
      /\ c1 # c2
      /\ MainKey \notin DOMAIN db
      /\ pc[c1] = "db_set"
      /\ cmd[c1].key = MainKey
      /\ cmd[c1].opts.condition = "IfNotExists"
      /\ ~key_exists[c1]
      /\ pc[c2] = "execute"
      /\ cmd[c2].key = MainKey
      /\ cmd[c2].opts.condition = "IfNotExists"

\* C9: every entry of the map is, whole, the entry of the SET last applied to
\* its key, and every GET returns null or the value of that SET, having looked
\* up that SET's entry: never a value with another SET's expiry, never a value
\* no SET wrote.
C9_NoTornRead ==
    [][/\ \A k \in DOMAIN db' :
            lastSet'[k] # NoneOpt /\ db'[k] = EntryOf(lastSet'[k][1])
       /\ \A c \in Conns :
            (GetReturns(c) /\ cmd[c].name = "Get")
            => \/ response'[c] = RespNull
               \/ /\ lastSet[cmd[c].key] # NoneOpt
                  /\ entry[c] = Some(EntryOf(lastSet[cmd[c].key][1]))
                  /\ response'[c] = RespEcho(lastSet[cmd[c].key][1].value)]_vars

\* C9 witness: a GET has replied a, and a SET foo b PX 1 of another
\* connection has been applied since.
C9_Witness ==
    \E c \in Conns :
      /\ pc[c] = "write"
      /\ cmd[c] = CmdGet(MainKey)
      /\ response[c] = RespEcho(B("a"))
      /\ lastSet[MainKey] # NoneOpt
      /\ lastSet[MainKey][1].value = B("b")
      /\ lastSet[MainKey][1].px # NoneOpt
      /\ MainKey \in DOMAIN db
      /\ db[MainKey] = EntryOf(lastSet[MainKey][1])

\* The loop body of handle_connection is at a command.
InBody(c) == pc[c] \in {"as_response", "db_get", "execute", "db_set", "write"}

\* C10: on each connection the replies written are those of commands
\* 1, 2, 3, ... in arrival order, one each; the command the loop body is at is the
\* one after the last replied (its reply is not written yet, and every earlier
\* reply is); the values left to the loop are the later arrivals in order; and
\* between batches every command that arrived has its reply.
C10_InOrder ==
    \A c \in Conns :
      /\ \A i \in 1..Len(out[c]) : out[c][i] = i
      /\ InBody(c) <=> cur[c] # 0
      /\ InBody(c) => cur[c] = Len(out[c]) + 1
      /\ pc[c] # "panicked" =>
           /\ \A i \in 1..Len(pending[c]) :
                pending[c][i] = Len(out[c]) + (IF InBody(c) THEN 1 ELSE 0) + i
           /\ Len(out[c]) + (IF InBody(c) THEN 1 ELSE 0) + Len(pending[c]) = sent[c]
      /\ pc[c] = "read" => Len(out[c]) = sent[c]

\* C10 witness: of two commands that arrived in one batch the first has been
\* executed and replied to, and the second has not begun.
C10_Witness ==
    \E c \in Conns :
      /\ pc[c] = "next"
      /\ out[c] = <<1>>
      /\ pending[c] = <<2>>

\* The client has written well-formed commands only.
AllCommands == \A i \in 1..Len(frames) : frames[i].type # "Raw"
\* The command the i-th frame encodes.
CommandOf(i) == into_command(Decodable(frames[i]), clock)
\* Every byte written has arrived and has been parsed, and the thread is
\* waiting in read with nothing aggregated.
AllParsed == wpc = "read" /\ agg = <<>> /\ sock = <<>> /\ wire = <<>>

\* C11: however the bytes of well-formed commands are cut into reads (so
\* also when a parse attempt sees a text ending in a non-empty incomplete
\* command), the thread does not crash, the commands executed are the
\* commands written, each intact, once and in order (never a shorter or a
\* different one), and none is dropped: once every byte has been parsed every
\* command has been executed.
C11_PartialTailKept ==
    AllCommands
    => /\ wpc # "panicked"
       /\ Len(executed) <= Len(frames)
       /\ \A i \in 1..Len(executed) : executed[i] = CommandOf(i)
       /\ AllParsed => Len(executed) = Len(frames)

\* C12: once a read has returned 0 at the end of the stream the loop is left:
\* the thread is never back waiting in read.
C12_EofTerminates == eof => wpc # "read"

\* C13: a command of malformed shape is replied to with a RESP Error, leaves
\* the keyspace unchanged and leaves the connection open: the step in which the
\* loop takes a value that decodes to no command leaves the map as it is and
\* takes the thread to the write of an Error reply, after which the loop goes on.
C13_MalformedReplied ==
    [][\A c \in Conns :
         (pc[c] = "next" /\ pc'[c] # "next" /\ cmd'[c] = NoCmd)
         => /\ db' = db
            /\ pc'[c] = "write"
            /\ response'[c].kind = "Error"]_vars

\* The text begins with the bytes of a frame the client wrote whose first byte
\* is no prefix.
StartsWithUnknownPrefix(text) ==
    \E i \in 1..Len(frames) :
      /\ frames[i].type = "Raw"
      /\ Len(frames[i].s) <= Len(text)
      /\ SubSeq(text, 1, Len(frames[i].s)) = frames[i].s

\* C14: a frame whose first byte is none of + - : $ * is rejected as an
\* error value, not a panic: the parse attempt whose text begins with such a
\* frame ends with the connection closed in order, nothing executed for it.
C14_UnknownPrefixRejected ==
    [][(/\ wpc = "read"
        /\ Len(sock) < BUFFER_SIZE
        /\ sock # <<>>
        /\ sock' = <<>>
        /\ StartsWithUnknownPrefix(agg \o sock))
       => (wpc' = "closed" /\ executed' = executed)]_vars

\* C15: a failure inside one command never leaves the mutex held or poisoned
\* and never changes the keyspace: the failing step changes neither the map
\* nor the owner of the mutex, the failed thread does not own it, and in every
\* state after a failure the mutex is free or owned by a live thread inside
\* db_get or db_set (whose return frees it), so each SET / GET of another
\* connection acquires it in turn.
C15_NoPoison ==
    [][/\ \A c \in Conns :
            (pc[c] # "panicked" /\ pc'[c] = "panicked")
            => (db' = db /\ mutex' = mutex /\ mutex # c)
       /\ (\E c \in Conns : pc'[c] = "panicked")
            => /\ \A c \in Conns : pc'[c] = "panicked" => mutex' # c
               /\ mutex' # "free" => pc'[mutex'] \in {"db_get", "db_set"}
               /\ \A c \in Conns :
                    (pc[c] \in {"db_get", "db_set"} /\ pc'[c] \notin {"db_get", "db_set"})
                    => mutex' = "free"]_vars

\* C15 witness: one connection has failed on its first command, and the other,
\* its first command replied to, is inside db_set for its second, owning the
\* mutex.
C15_Witness ==
    \E c1, c2 \in Conns :
      /\ pc[c1] = "panicked"
      /\ out[c1] = <<>>
      /\ pc[c2] = "db_set"
      /\ mutex = c2
      /\ out[c2] = <<1>>

\* The reply CONFIG GET key is to get from the record cfg.
ConfigReply(key, cfg) ==
    IF key = "dir" THEN RespEcho(Array(<<B("dir"), B(cfg.directory)>>))
    ELSE IF key = "dbfilename" THEN RespEcho(Array(<<B("dbfilename"), B(cfg.dbfilename)>>))
    ELSE RespNull

\* C16: for every sequence v1..vk of values of the supported subset, parsing
\* the concatenation of their encodings does not panic and yields exactly
\* v1..vk in order.
C16_RoundTrip ==
    /\ wpc # "panicked"
    /\ wpc = "parsed" => inputs = frames

\* C16 witness: a nested array followed by an empty bulk string has been
\* encoded and parsed back.
C16_Witness ==
    /\ wpc = "parsed"
    /\ frames = << Array(<<Array(<<Integer(0 - 1)>>), BulkString(Chars("")), Array(<<>>)>>),
                   BulkString(Chars("")) >>
    /\ inputs = frames
    /\ Len(agg) > Len(frames)

\* C17: whatever has been executed before, CONFIG GET dir and CONFIG GET
\* dbfilename are replied to with the array [key, value], the value being that
\* of the record stored at startup, CONFIG GET of another key with null; and
\* no step changes the record.
C17_ConfigGet ==
    [][/\ config' = config
       /\ \A c \in Conns :
            (pc[c] = "as_response" /\ pc'[c] # "as_response" /\ cmd[c].name = "ConfigGet")
            => response'[c] = ConfigReply(cmd[c].key, config)]_vars

\* C17 witness: on a server started with --dir /tmp/redis-files, after a SET
\* has been applied, CONFIG GET dir has got the reply [dir, /tmp/redis-files].
C17_Witness ==
    \E c \in Conns :
      /\ pc[c] = "write"
      /\ cmd[c] = CmdConfigGet("dir")
      /\ response[c] = RespEcho(Array(<<B("dir"), B("/tmp/redis-files")>>))
      /\ config.directory # DefaultArgs.directory
      /\ lastSet[MainKey] # NoneOpt

\* C18: SET k v EXAT s and SET k v PXAT ms are accepted and decode, at
\* whatever instant, to a Set whose expires_at is the absolute time s seconds
\* (ms milliseconds) after the epoch.
C18_AbsoluteExpiry ==
    /\ into_command(ExatRequest("1"), clock)
         = CmdSet(MainKey, B("b"), [DefaultOpts EXCEPT !.expires_at = Some(1 * MsPerSec)])
    /\ into_command(PxatRequest("1"), clock)
         = CmdSet(MainKey, B("b"), [DefaultOpts EXCEPT !.expires_at = Some(1)])
    /\ into_command(PxatRequest("2"), clock)
         = CmdSet(MainKey, B("b"), [DefaultOpts EXCEPT !.expires_at = Some(2)])

\* C19: when the snapshot file exists and decodes, the keyspace served holds
\* every key of its data: a GET of a snapshot key that is not expired, before
\* any SET on it is applied, returns the snapshot's value; when there is no
\* file, the keyspace is empty until a SET is applied.
C19_SnapshotServed ==
    [][/\ \A c \in Conns :
            LET k == cmd[c].key IN
            (/\ GetReturns(c)
             /\ cmd[c].name = "Get"
             /\ disk # NoneOpt
             /\ k \in DOMAIN disk[1]
             /\ ~LogicallyExpired(disk[1][k], clock)
             /\ lastSet[k] = NoneOpt)
            => response'[c] = RespEcho(disk[1][k].value)
       /\ (disk = NoneOpt /\ \A k \in Keys : lastSet'[k] = NoneOpt)
            => DOMAIN db' = {}]_vars

\* C20: the keyspace changes only in two ways.  If the map differs at a key
\* after a step, the step is the return of a db_set on that key that stores
\* its own entry, or the return of a db_get on that key that found its entry
\* expired and removed it.  A db_get of a live or absent key, and the reply to
\* PING, ECHO, COMMAND and CONFIG GET, leave the whole map unchanged.
C20_FrameEffects ==
    [][/\ \A k \in Keys :
            MapGet(db', k) # MapGet(db, k)
            => \E c \in Conns :
                 /\ cmd[c].key = k
                 /\ \/ /\ SetReturns(c)
                       /\ MapGet(db', k) = Some(DBEntry(cmd[c].value, cmd[c].opts.expires_at))
                    \/ /\ GetReturns(c)
                       /\ entry[c] # NoneOpt
                       /\ LogicallyExpired(entry[c][1], clock)
                       /\ MapGet(db', k) = NoneOpt
       /\ \A c \in Conns :
            (/\ GetReturns(c)
             /\ entry[c] = NoneOpt \/ ~LogicallyExpired(entry[c][1], clock))
            => db' = db
       /\ \A c \in Conns :
            (/\ pc[c] = "as_response"
             /\ pc'[c] # "as_response"
             /\ cmd[c].name \in {"Ping", "Echo", "Command", "ConfigGet"})
            => db' = db]_vars

\* C20 witness: a GET foo has found the entry of foo expired and removed it,
\* and the entry of baz is still in the map.
C20_Witness ==
    \E c \in Conns :
      /\ pc[c] = "write"
      /\ cmd[c] = CmdGet(MainKey)
      /\ response[c] = RespNull
      /\ lastSet[MainKey] # NoneOpt
      /\ DOMAIN db = Keys \ {MainKey}

\* The thread waits in read, every byte written has arrived and has been
\* read, and the client's end is open: the read returns only when the client
\* writes more or closes.
ServerWaits == wpc = "read" /\ sock = <<>> /\ wire = <<>> /\ peer = "open"
\* The text of the last j frames written.
LastFramesText(j) == EncodeAll(SubSeq(frames, Len(frames) + 1 - j, Len(frames)))

\* C24: every complete command is executed and replied to without the client
\* sending further bytes, whatever its length relative to the buffer, a
\* multiple of BUFFER_SIZE included: the thread never waits in read for bytes
\* of the client's while the whole text of commands written sits aggregated
\* and unparsed.
C24_PerfectFitExecuted ==
    (AllCommands /\ ServerWaits)
    => \A j \in 1..Len(frames) : agg # LastFramesText(j)

\* C25: db_set evaluates NX and XX against the key's presence in the map, not
\* against liveness.  While the entry of k is logically expired and still in
\* the map, SET k v NX is skipped and leaves the map as it is, so that a
\* following GET k returns null, and SET k v XX stores v.
C25_PhysicalPresence ==
    [][\A c \in Conns :
         LET k == cmd[c].key IN
         /\ (SetReturns(c) /\ k \in DOMAIN db /\ LogicallyExpired(db[k], clock))
            => /\ cmd[c].opts.condition = "IfNotExists" => db' = db
               /\ cmd[c].opts.condition = "IfExists"
                    => /\ k \in DOMAIN db'
                       /\ db'[k] = DBEntry(cmd[c].value, cmd[c].opts.expires_at)
         /\ (/\ GetReturns(c)
             /\ cmd[c].name = "Get"
             /\ lastSkip[k] # NoneOpt
             /\ lastSkip[k][1].condition = "IfNotExists"
             /\ lastSkip[k][1].old # NoneOpt
             /\ LogicallyExpired(lastSkip[k][1].old[1], clock))
            => response'[c] = RespNull]_vars

\* C25 witness: a SET foo b NX was skipped on the entry of foo, which is
\* expired, and a GET foo after it has replied null.
C25_Witness ==
    \E c \in Conns :
      /\ pc[c] = "write"
      /\ cmd[c] = CmdGet(MainKey)
      /\ response[c] = RespNull
      /\ lastSkip[MainKey] # NoneOpt
      /\ lastSkip[MainKey][1].condition = "IfNotExists"
      /\ lastSkip[MainKey][1].old # NoneOpt
      /\ LogicallyExpired(lastSkip[MainKey][1].old[1], clock)

\* C26: the reply to a SET is written only after its write has been applied
\* or skipped, so that once the reply to an unconditional SET k v has been
\* received a GET k issued afterwards returns v or the value of a later SET.
\* A reply is written only from the position after the loop body's execute; a
\* SET reaches that position only in the step in which db_set returns, and an
\* unconditional one has then stored its entry; and a GET returns the value
\* of the SET last applied to its key when that SET set no expiry.
C26_ReplyAfterWrite ==
    [][\A c \in Conns :
         LET k == cmd[c].key IN
         /\ out'[c] # out[c]
            => pc[c] = "write" /\ out'[c] = Append(out[c], cur[c])
         /\ (pc[c] # "write" /\ pc'[c] = "write" /\ cmd[c].name = "Set")
            => /\ SetReturns(c)
               /\ cmd[c].opts.condition = "Always"
                    => /\ MapGet(db', k) = Some(DBEntry(cmd[c].value, cmd[c].opts.expires_at))
                       /\ lastSet'[k] # NoneOpt
                       /\ lastSet'[k][1].value = cmd[c].value
         /\ (/\ GetReturns(c)
             /\ cmd[c].name = "Get"
             /\ lastSet[k] # NoneOpt
             /\ lastSet[k][1].px = NoneOpt)
            => response'[c] = RespEcho(lastSet[k][1].value)]_vars

\* C26 witness: one connection has sent SET foo a alone and its reply has
\* been written; the other has sent a GET foo alone, which has returned a.
C26_Witness ==
    \E c, o \in Conns :
      /\ c # o
      /\ sent[o] = 1
      /\ out[o] = <<1>>
      /\ lastSet[MainKey] = Some([value |-> B("a"), plain |-> TRUE, px |-> NoneOpt])
      /\ sent[c] = 1
      /\ pc[c] = "write"
      /\ cmd[c] = CmdGet(MainKey)
      /\ response[c] = RespEcho(B("a"))

\* ----------------------------------------------- properties of the decoder
\* load_db has returned or panicked.
LoadEnded == lpc \in {"loaded", "err", "panicked"}

\* What an entry of a file stands for: the instant of its expiry in
\* milliseconds (none for a stamp of zero), its key and its value.
ExpectedExpiry(e) ==
    CASE e.unit = "none" \/ e.stamp = 0 -> NoneOpt
      [] e.unit = "ms" -> Some(e.stamp)
      [] e.unit = "s" -> Some(e.stamp * MsPerSec)

\* The two's complement of a little-endian number: its bytes inverted, plus one.
RECURSIVE AddOne(_)
AddOne(le) ==
    IF le = <<>> THEN <<>>
    ELSE IF Head(le) = Radix - 1 THEN <<0>> \o AddOne(Tail(le))
    ELSE <<Head(le) + 1>> \o Tail(le)
Negated(le) == AddOne([i \in 1..Len(le) |-> Radix - 1 - le[i]])

\* The decimal text of the signed integer (i8, i16, i32 by the number of
\* bytes) with the little-endian bytes le; 45 is the minus sign.
SignedDecimal(le) ==
    IF le[Len(le)] >= Radix \div 2 THEN <<45>> \o to_string(Negated(le))
    ELSE to_string(le)

ExpectedValue(e) == IF e.enc = "str" THEN Tail(e.val) ELSE SignedDecimal(e.val)
ExpectedEntry(e) == DBEntry(SimpleString(ExpectedValue(e)), ExpectedExpiry(e))

\* The keyspace a list of entries stands for: under each key the last entry
\* written for it.
ExpectedData(es) ==
    [k \in { Tail(es[i].key) : i \in 1..Len(es) } |->
        LET last == CHOOSE i \in 1..Len(es) :
                       /\ Tail(es[i].key) = k
                       /\ \A j \in (i + 1)..Len(es) : Tail(es[j].key) # k
        IN ExpectedEntry(es[last])]

IsPlainText(e) == e.unit = "none" /\ e.enc = "str"

\* C21: a data entry preceded by the opcode 0xFC and a little-endian
\* millisecond stamp T # 0 (resp. 0xFD and a stamp in seconds), followed by the
\* type tag, key and value, is loaded under its key with that value and the
\* expiry epoch + T, and what follows it is decoded from the right offset: a
\* file of such entries and of entries without expiry loads, and the keyspace
\* loaded is the one its entries stand for.
C21_ExpiryLoaded ==
    ( /\ LoadEnded
      /\ \A i \in 1..Len(written) :
            \/ IsPlainText(written[i])
            \/ written[i].layout = "prefix" /\ written[i].stamp # 0
      /\ \E i \in 1..Len(written) : written[i].layout = "prefix" )
    => /\ lpc = "loaded"
       /\ db_data.data = ExpectedData(written)

\* C22: an entry whose expiry stamp is zero, in seconds or milliseconds, is
\* still loaded, without expiry, and its key and value bytes are consumed as
\* that entry's: a file of such entries and of entries without expiry loads,
\* and the keyspace loaded is the one its entries stand for.
C22_ZeroExpiryLoaded ==
    ( /\ LoadEnded
      /\ \A i \in 1..Len(written) :
            \/ IsPlainText(written[i])
            \/ written[i].unit # "none" /\ written[i].stamp = 0
      /\ \E i \in 1..Len(written) : written[i].unit # "none" )
    => /\ lpc = "loaded"
       /\ db_data.data = ExpectedData(written)

\* C23: a value whose first byte has the top bits 11 and the low six bits 0,
\* 1 or 2 is the decimal text of the next 1, 2 or 4 bytes read as a signed
\* little-endian i8, i16 or i32, whatever the bytes are.
C23_SignedIntegers ==
    ( /\ LoadEnded
      /\ \E i \in 1..Len(written) : written[i].enc = "int" )
    => /\ lpc = "loaded"
       /\ db_data.data = ExpectedData(written)

====
